---------------------------- MODULE Spec2Model ----------------------------
(***************************************************************************)
(* A model of megophone's Metaphone(s): the padded text, the cursor, the   *)
(* two codes, the lookahead matcher, the emitter, the letter handlers and  *)
(* the scan loop of src/metaphone.go.                                      *)
(*                                                                         *)
(* A Go string is a sequence of bytes; the model keeps it as a sequence of *)
(* byte values 0..255.  Positions are 0-based as in the source; a TLA+     *)
(* sequence is 1-based, so the byte at Go index i is t[i + 1].             *)
(***************************************************************************)
EXTENDS Integers, Sequences, FiniteSets, TLC

VARIABLES
    s,      \* the argument of the running call of Metaphone
    p,      \* the phoneticData of the running call
    pc,     \* where the running call stands
    iters,  \* loop iterations the running call has completed
    reads,  \* the windows [lo, hi) of p.t the last step read
    trace,  \* the scan states the running call has passed through
    memo    \* the record of one earlier call, or NoCall

vars == <<s, p, pc, iters, reads, trace, memo>>

---------------------------------------------------------------------------
(* Bytes and string literals *)

Lower == "abcdefghijklmnopqrstuvwxyz"

Upper == "ABCDEFGHIJKLMNOPQRSTUVWXYZ"

\* The byte of a one-character ASCII literal: a space, a lower-case or an
\* upper-case letter.
Ascii(ch) ==
    IF ch = " " THEN 32
    ELSE IF \E i \in 1..26 : SubSeq(Lower, i, i) = ch
         THEN 96 + (CHOOSE i \in 1..26 : SubSeq(Lower, i, i) = ch)
         ELSE 64 + (CHOOSE i \in 1..26 : SubSeq(Upper, i, i) = ch)

\* The string literals of the source and of the scenarios, encoded once.
Literals ==
    {" ", "A", "C", "a", "b", "c", "e", "f", "g", "h", "i", "k", "l", "m",
     "n", "o", "p", "r", "s", "t", "u", "v", "w", "x", "y", "z", "bb",
     "ca", "ch", "cz", "gn", "kn", "mc", "pn", "ps", "wr", "ach", "cat",
     "cia", "hem", "hia", "hor", "hym", "sch", "xcb", "mch",
     "    ", "aach", "acia", "bach", "ccia", "chem",
     "chae", "chia", "czia", "gnxa", "knbb", "pnab", "psab", "van ",
     "von ", "wicz", "wrab", "xray", "     ", "acher", "chore", "harac",
     "haris", "mchae", "archit", "von ch", "bachi", "bacher", "caesar", "orches", "orchid"}

Encoded == [w \in Literals |-> [i \in 1..Len(w) |-> Ascii(SubSeq(w, i, i))]]

\* The bytes of an ASCII string literal, and the byte of a one-character one.
Str(w) == Encoded[w]

Byte(ch) == Encoded[ch][1]

\* The UTF-8 encoding of one rune, as Go stores a string literal.
Utf8(r) ==
    IF r < 128 THEN <<r>>
    ELSE IF r < 2048 THEN <<192 + (r \div 64), 128 + (r % 64)>>
    ELSE <<224 + (r \div 4096), 128 + ((r \div 64) % 64), 128 + (r % 64)>>

\* The rune constant of `case 'ç'`: U+00E7.
RuneCedilla == 231

---------------------------------------------------------------------------
(* Bounds and inputs *)

MaxLen == 3

MaxCallLen == 2

Alphabet ==
    {Byte("a"), Byte("e"), Byte("i"), Byte("b"), Byte("c"), Byte("h"),
     Byte("x"), Byte("z"), Byte("g"), Byte("n"), Byte("s"), Byte(" "),
     Byte("A"), Byte("C"), 195, 167, RuneCedilla}

CallAlphabet == {Byte("a"), Byte("b"), Byte("c"), RuneCedilla}

Words(alphabet, n) == UNION {[1..k -> alphabet] : k \in 0..n}

Scenarios ==
    {Str("bb"), Utf8(RuneCedilla), Str("chia"), Str("caesar"), Str("cat"),
     Str("xray"), Str("knbb"), Str("pnab"), Str("wrab"), Str("psab"),
     Str("gnxa"), Str("bacher"), Str("czia"), Str("acia"), Str("mchae"),
     Str("bach"), Str("aach"), Str("wicz"), Str("ccia"), Str("chore"),
     Str("chem"), Str("mch"), Str("orchid"), Str("von ch"),
     Str("bachi")}

ToUpper(w) == [i \in 1..Len(w) |-> IF w[i] \in 97..122 THEN w[i] - 32 ELSE w[i]]

UpperScenarios == {ToUpper(w) : w \in {x \in Scenarios : \A i \in 1..Len(x) : x[i] \in 97..122}}

Inputs == Words(Alphabet, MaxLen) \cup Scenarios \cup UpperScenarios

FairAlphabet ==
    {Byte("a"), Byte("b"), Byte("c"), Byte("h"), Byte("g"), Byte("n"), Byte(" "),
     RuneCedilla}

FairInputs == Words(FairAlphabet, MaxLen) \cup Scenarios

CallInputs == Words(CallAlphabet, MaxCallLen) \cup {Str("chia"), Str("xcb")}

NoCall == [s |-> <<-1>>, trace |-> <<>>, ret |-> <<>>]

---------------------------------------------------------------------------
(* phoneticData and its methods *)

\* Before the first call there is no phoneticData; the model holds zero values.
NoData ==
    [t |-> <<>>, cur |-> 0, isSlavoGermanic |-> FALSE,
     metaphone1 |-> <<>>, metaphone2 |-> <<>>]

\* A phoneticData that is not fresh: the codes of the call before are kept.
StalePhoneticData ==
    [t |-> <<>>, cur |-> 0, isSlavoGermanic |-> FALSE,
     metaphone1 |-> p.metaphone1, metaphone2 |-> p.metaphone2]

\* A phoneticData whose flag is computed from the input's letters.
SlavoPhoneticData ==
    [t |-> <<>>, cur |-> 0,
     isSlavoGermanic |-> \E i \in 1..Len(s) : s[i] \in {Byte("w"), Byte("k")},
     metaphone1 |-> <<>>, metaphone2 |-> <<>>]

\* p = &phoneticData{}: every field has its zero value.
NewPhoneticData ==
    [t |-> <<>>, cur |-> 0, isSlavoGermanic |-> FALSE,
     metaphone1 |-> <<>>, metaphone2 |-> <<>>]

\* A filler one space short.
ShortPad == Str("    ")

\* The filler of p.t = s + "     ".
Pad == Str("     ")

\* A condition's outcome: v is "T", "F" or "P" (the evaluation panicked on an
\* out-of-range read); reads are the windows it read.
Const(bool) == [v |-> IF bool THEN "T" ELSE "F", reads |-> {}]

\* The operators below combine outcomes. Each takes its arguments through a
\* bound variable, so that an argument is evaluated once.
NotOf(x) == [v |-> IF x.v = "T" THEN "F" ELSE IF x.v = "F" THEN "T" ELSE "P",
             reads |-> x.reads]

Not(a) == CHOOSE r \in {NotOf(x) : x \in {a}} : TRUE

\* a && b and a || b: b counts (its value, its reads, its panic) only when a
\* does not decide.
AndOf(x, y) == IF x.v = "T" THEN [v |-> y.v, reads |-> x.reads \cup y.reads] ELSE x

And(a, b) == CHOOSE r \in {AndOf(x, y) : x \in {a}, y \in {b}} : TRUE

OrOf(x, y) == IF x.v = "F" THEN [v |-> y.v, reads |-> x.reads \cup y.reads] ELSE x

Or(a, b) == CHOOSE r \in {OrOf(x, y) : x \in {a}, y \in {b}} : TRUE

InRange(t, lo, hi) == 0 <= lo /\ lo <= hi /\ hi <= Len(t)

RECURSIVE matchLoop(_, _, _, _, _)
matchLoop(q, pos, matches, i, seen) ==
    IF i > Len(matches) THEN [v |-> "F", reads |-> seen]
    ELSE LET size == Len(matches[i])
             lo == q.cur + pos
             hi == q.cur + size + pos
             now == seen \cup {<<lo, hi>>}
         IN  IF ~InRange(q.t, lo, hi) THEN [v |-> "P", reads |-> now]
             ELSE IF SubSeq(q.t, lo + 1, hi) = matches[i]
                  THEN [v |-> "T", reads |-> now]
                  ELSE matchLoop(q, pos, matches, i + 1, now)

matchesAny(q, pos, matches) ==
    IF Len(matches) = 0 THEN Const(TRUE)
    ELSE IF q.cur + pos < 0 THEN Const(FALSE)
    ELSE matchLoop(q, pos, matches, 1, {})

\* An emitter that replaces the codes instead of extending them.
addOverwrite(q, phoneme) ==
    IF Len(phoneme) > 0
    THEN [q EXCEPT !.metaphone1 = phoneme[1],
                   !.metaphone2 = IF Len(phoneme) > 1 THEN phoneme[2] ELSE phoneme[1]]
    ELSE q

\* An emitter whose one-argument form forgets the secondary code.
addPrimaryOnly(q, phoneme) ==
    IF Len(phoneme) > 0
    THEN [q EXCEPT !.metaphone1 = @ \o phoneme[1],
                   !.metaphone2 = @ \o (IF Len(phoneme) > 1 THEN phoneme[2] ELSE <<>>)]
    ELSE q

add(q, phoneme) ==
    IF Len(phoneme) > 0
    THEN [q EXCEPT !.metaphone1 = @ \o phoneme[1],
                   !.metaphone2 = @ \o (IF Len(phoneme) > 1 THEN phoneme[2]
                                        ELSE phoneme[1])]
    ELSE q

\* A skip that moves the cursor back.
skipBack(q, skipBy) == [q EXCEPT !.cur = @ - skipBy]

skip(q, skipBy) == [q EXCEPT !.cur = @ + skipBy]

isVowel(q, pos) ==
    matchesAny(q, pos, <<Str("a"), Str("e"), Str("i"), Str("o"), Str("u"), Str("y")>>)


\* A b handler that skips three bytes on a doubled b.
bLongSkip(q) ==
    LET q1 == add(q, <<Str("p")>>)
        at == q1.cur + 1
        ok == InRange(q1.t, at, at + 1)
    IN  [p |-> IF ok /\ q1.t[at + 1] = Byte("b") THEN skip(q1, 3) ELSE q1,
         panic |-> ~ok,
         reads |-> {<<at, at + 1>>}]

\* A b handler that does not skip a doubled b.
bNoCollapse(q) ==
    LET q1 == add(q, <<Str("p")>>)
        at == q1.cur + 1
    IN  [p |-> q1, panic |-> ~InRange(q1.t, at, at + 1), reads |-> {<<at, at + 1>>}]

\* func (p *phoneticData) b(): the outcome is the new data, whether the read of
\* p.t[p.cur+1] panicked, and the windows read.
b(q) ==
    LET q1 == add(q, <<Str("p")>>)
        at == q1.cur + 1
        ok == InRange(q1.t, at, at + 1)
    IN  [p |-> IF ok /\ q1.t[at + 1] = Byte("b") THEN skip(q1, 1) ELSE q1,
         panic |-> ~ok,
         reads |-> {<<at, at + 1>>}]

\* func (p *phoneticData) ç()
cedilla(q) == [p |-> add(q, <<Str("s")>>), panic |-> FALSE, reads |-> {}]

---------------------------------------------------------------------------
(* func (p *phoneticData) c(): the conditions of its if / else-if chain *)

\* A rule 1 whose "acher" exception is aligned with its "ach" test.
Cond1AcherAligned(q) ==
    And(Const(q.cur > 1),
    And(Not(isVowel(q, -2)),
    And(matchesAny(q, -1, <<Str("ach")>>),
    And(Not(matchesAny(q, 2, <<Str("i")>>)),
        Or(Not(matchesAny(q, 2, <<Str("e")>>)),
           matchesAny(q, -1, <<Str("acher")>>))))))

\* various germanic
Cond1(q) ==
    And(Const(q.cur > 1),
    And(Not(isVowel(q, -2)),
    And(matchesAny(q, -1, <<Str("ach")>>),
    And(Not(matchesAny(q, 2, <<Str("i")>>)),
        Or(Not(matchesAny(q, 2, <<Str("e")>>)),
           matchesAny(q, -2, <<Str("acher")>>))))))

\* A rule 2 that tests only the first two letters of "caesar".
Cond2Loose(q) == And(Const(q.cur = 0), matchesAny(q, 0, <<Str("ca")>>))

\* special case: "caesar"
Cond2(q) == And(Const(q.cur = 0), matchesAny(q, 0, <<Str("caesar")>>))

\* italian "chianti"
Cond3(q) == matchesAny(q, 0, <<Str("chia")>>)

\* ch
Cond4(q) == matchesAny(q, 0, <<Str("ch")>>)

\* find "michael"
Cond4a(q) == And(Const(q.cur > 0), matchesAny(q, 0, <<Str("chae")>>))

\* A greek-roots rule without its "chore" exception.
Cond4bNoChore(q) ==
    And(Const(q.cur = 0),
        matchesAny(q, 1, <<Str("harac"), Str("haris"), Str("hor"),
                           Str("hym"), Str("hia"), Str("hem")>>))

\* greek roots
Cond4b(q) ==
    And(Const(q.cur = 0),
    And(Not(matchesAny(q, 0, <<Str("chore")>>)),
        matchesAny(q, 1, <<Str("harac"), Str("haris"), Str("hor"),
                           Str("hym"), Str("hia"), Str("hem")>>)))

\* germanic greek or otherwise "ch" for "kh" sound
Cond4c(q) ==
    Or(matchesAny(q, -q.cur, <<Str("van "), Str("von "), Str("sch")>>),
    Or(matchesAny(q, -2, <<Str("orches"), Str("archit"), Str("orchid")>>),
    Or(matchesAny(q, 2, <<Str("t"), Str("s")>>),
       And(Or(matchesAny(q, -1, <<Str("a"), Str("e"), Str("o"), Str("u")>>),
              Const(q.cur = 0)),
           matchesAny(q, 2, <<Str("l"), Str("r"), Str("n"), Str("m"), Str("b"),
                              Str("h"), Str("f"), Str("v"), Str("w"), Str(" ")>>)))))

\* A test that also lets a leading "ch" reach the two-fragment emission.
Cond4dAnywhere(q) == Const(q.cur >= 0)

Cond4d(q) == Const(q.cur > 0)

\* e.g. "McHugh"
Cond4d1(q) == matchesAny(q, -q.cur, <<Str("mc")>>)

\* e.g. "czerny"
Cond5(q) == And(matchesAny(q, 0, <<Str("cz")>>), Not(matchesAny(q, -2, <<Str("wicz")>>)))

\* e.g. "focaccia"
Cond6(q) == matchesAny(q, 1, <<Str("cia")>>)

\* A decision: the branch taken (or "panic") and the windows read on the way.
Leaf(rule) == [rule |-> rule, reads |-> {}]

BranchOf(x, y, z) ==
    IF x.v = "P" THEN [rule |-> "panic", reads |-> x.reads]
    ELSE IF x.v = "T" THEN [rule |-> y.rule, reads |-> x.reads \cup y.reads]
    ELSE [rule |-> z.rule, reads |-> x.reads \cup z.reads]

\* if cond { then } else { else }
Branch(cond, then, else) ==
    CHOOSE r \in {BranchOf(x, y, z) : x \in {cond}, y \in {then}, z \in {else}} : TRUE

\* The branch of c() taken in q, named by the rows of its decision list:
\* "1", "2", "3", "4a" .. "4f", "5", "6", and "7" when no branch is taken.
cDecision(q) ==
    Branch(Cond1(q), Leaf("1"),
    Branch(Cond2(q), Leaf("2"),
    Branch(Cond3(q), Leaf("3"),
    Branch(Cond4(q),
        Branch(Cond4a(q), Leaf("4a"),
        Branch(Cond4b(q), Leaf("4b"),
        Branch(Cond4c(q), Leaf("4c"),
        Branch(Cond4d(q),
            Branch(Cond4d1(q), Leaf("4d"), Leaf("4e")),
            Leaf("4f"))))),
    Branch(Cond5(q), Leaf("5"),
    Branch(Cond6(q), Leaf("6"), Leaf("7")))))))

\* The body of the branch taken.
cBody(q, rule) ==
    CASE rule = "1"  -> skip(add(q, <<Str("k")>>), 1)
      [] rule = "2"  -> skip(add(q, <<Str("s")>>), 1)
      [] rule = "3"  -> skip(add(q, <<Str("k")>>), 1)
      [] rule = "4a" -> skip(add(q, <<Str("k")>>), 1)
      [] rule = "4b" -> skip(add(q, <<Str("k")>>), 1)
      [] rule = "4c" -> skip(add(q, <<Str("k")>>), 1)
      [] rule = "4d" -> skip(add(q, <<Str("k")>>), 1)
      [] rule = "4e" -> skip(add(q, <<Str("x"), Str("k")>>), 1)
      [] rule = "4f" -> skip(add(q, <<Str("x")>>), 1)
      [] rule = "5"  -> skip(add(q, <<Str("s"), Str("x")>>), 1)
      [] rule = "6"  -> skip(add(q, <<Str("x")>>), 2)
      [] OTHER       -> q

c(q) ==
    CHOOSE r \in {[p |-> cBody(q, d.rule), panic |-> d.rule = "panic", reads |-> d.reads] :
                     d \in {cDecision(q)}} : TRUE


---------------------------------------------------------------------------
(* func Metaphone(s string) (string, string) *)

SilentPrefixes == <<Str("gn"), Str("kn"), Str("pn"), Str("wr"), Str("ps")>>

\* A prefix test that forgets the skip.
silentPrefixNoSkip(q) ==
    LET m == matchesAny(q, 0, SilentPrefixes)
    IN  [p |-> q, panic |-> m.v = "P", reads |-> m.reads]

\* if p.matchesAny(0, "gn", "kn", "pn", "wr", "ps") { p.skip(2) }
silentPrefix(q) ==
    LET m == matchesAny(q, 0, SilentPrefixes)
    IN  [p |-> IF m.v = "T" THEN skip(q, 2) ELSE q, panic |-> m.v = "P", reads |-> m.reads]

\* An initial-x rule that also consumes the x.
initialXSkip(q) ==
    LET m == matchesAny(q, 0, <<Str("x")>>)
    IN  [p |-> IF m.v = "T" THEN skip(add(q, <<Str("s")>>), 1) ELSE q, panic |-> m.v = "P",
         reads |-> m.reads]

\* if p.matchesAny(0, "x") { p.add("s") }
initialX(q) ==
    LET m == matchesAny(q, 0, <<Str("x")>>)
    IN  [p |-> IF m.v = "T" THEN add(q, <<Str("s")>>) ELSE q, panic |-> m.v = "P",
         reads |-> m.reads]

\* A loop condition that is off by one.
LoopCondOffByOne(q) == q.cur <= Len(q.t)

\* A loop that leaves the last byte of the text unscanned.
LoopCondEarly(q) == q.cur < Len(q.t) - 1

\* for p.cur < len(p.t)
LoopCond(q) == q.cur < Len(q.t)

\* case 'a', 'e', 'i', 'o', 'u', 'y'
VowelBytes == {Byte("a"), Byte("e"), Byte("i"), Byte("o"), Byte("u"), Byte("y")}

HandledBytes == VowelBytes \cup {Byte("b"), RuneCedilla, Byte("c")}

\* A dispatch that folds the case of the byte.
NextByteFolded(q) ==
    IF q.t[q.cur + 1] \in 65..90 THEN q.t[q.cur + 1] + 32 ELSE q.t[q.cur + 1]

\* next := p.t[p.cur]
NextByte(q) == q.t[q.cur + 1]

\* The scan state a step leaves behind.
Snapshot(q) == <<q.cur, q.metaphone1, q.metaphone2>>

\* A step of the call: the outcome of the statement at pc, then to.
Step(outcome, to) ==
    \E o \in {outcome} :
        /\ p' = o.p
        /\ reads' = o.reads
        /\ pc' = IF o.panic THEN "panic" ELSE to
        /\ trace' = Append(trace, Snapshot(o.p))
        /\ UNCHANGED <<s, memo>>

\* One iteration of the loop: next := p.t[p.cur], the handler's outcome, then
\* p.cur++.
Iterate(outcome) ==
    /\ \E o \in {outcome} :
          Step([o EXCEPT !.p = IF o.panic THEN o.p ELSE [o.p EXCEPT !.cur = @ + 1],
                         !.reads = o.reads \cup {<<p.cur, p.cur + 1>>}], "loop")
    /\ iters' = iters + 1

Quiet(q) == [p |-> q, panic |-> FALSE, reads |-> {}]

\* p = &phoneticData{}
Construct ==
    /\ pc = "entry"
    /\ Step(Quiet(NewPhoneticData), "pad")
    /\ UNCHANGED iters

\* p.t = s + "     "
PadInput ==
    /\ pc = "pad"
    /\ Step(Quiet([p EXCEPT !.t = s \o Pad]), "prefix")
    /\ UNCHANGED iters

SilentPrefix ==
    /\ pc = "prefix"
    /\ Step(silentPrefix(p), "initx")
    /\ UNCHANGED iters

InitialX ==
    /\ pc = "initx"
    /\ Step(initialX(p), "loop")
    /\ UNCHANGED iters

\* A vowel case that emits at every cursor.
Case_vowelAlways ==
    /\ pc = "loop" /\ LoopCond(p) /\ InRange(p.t, p.cur, p.cur + 1)
    /\ NextByte(p) \in VowelBytes
    /\ Iterate(Quiet(add(p, <<Str("a")>>)))

Case_vowel ==
    /\ pc = "loop" /\ LoopCond(p) /\ InRange(p.t, p.cur, p.cur + 1)
    /\ NextByte(p) \in VowelBytes
    /\ Iterate(Quiet(IF p.cur = 0 THEN add(p, <<Str("a")>>) ELSE p))

Case_b ==
    /\ pc = "loop" /\ LoopCond(p) /\ InRange(p.t, p.cur, p.cur + 1)
    /\ NextByte(p) = Byte("b")
    /\ Iterate(b(p))

Case_cedilla ==
    /\ pc = "loop" /\ LoopCond(p) /\ InRange(p.t, p.cur, p.cur + 1)
    /\ NextByte(p) = RuneCedilla
    /\ Iterate(cedilla(p))

Case_c ==
    /\ pc = "loop" /\ LoopCond(p) /\ InRange(p.t, p.cur, p.cur + 1)
    /\ NextByte(p) = Byte("c")
    /\ Iterate(c(p))

\* No case of the switch matches; a p.cur outside p.t makes the read of
\* p.t[p.cur] panic.
Case_none ==
    /\ pc = "loop" /\ LoopCond(p)
    /\ IF InRange(p.t, p.cur, p.cur + 1)
       THEN NextByte(p) \notin HandledBytes /\ Iterate(Quiet(p))
       ELSE Iterate([p |-> p, panic |-> TRUE, reads |-> {}])

\* return p.metaphone1, p.metaphone2
Return ==
    /\ pc = "loop" /\ ~LoopCond(p)
    /\ pc' = "done"
    /\ reads' = {}
    /\ UNCHANGED <<s, p, iters, trace, memo>>

\* The caller calls Metaphone again, on any input, after keeping or not keeping
\* the record of the call that returned.
CallAgain ==
    /\ pc = "done"
    /\ \E next \in CallInputs : s' = next
    /\ \/ memo' = memo
       \/ memo = NoCall /\ memo' = [s |-> s, trace |-> trace,
                                    ret |-> <<p.metaphone1, p.metaphone2>>]
    /\ pc' = "entry"
    /\ iters' = 0
    /\ reads' = {}
    /\ trace' = <<>>
    /\ UNCHANGED p

Init ==
    /\ s \in Inputs
    /\ p = NoData
    /\ pc = "entry"
    /\ iters = 0
    /\ reads = {}
    /\ trace = <<>>
    /\ memo = NoCall

Next ==
    \/ Construct
    \/ PadInput
    \/ SilentPrefix
    \/ InitialX
    \/ Case_vowel
    \/ Case_b
    \/ Case_cedilla
    \/ Case_c
    \/ Case_none
    \/ Return

\* One call of Metaphone on any input.
Spec == Init /\ [][Next]_vars

InitFair ==
    /\ s \in FairInputs
    /\ p = NoData
    /\ pc = "entry"
    /\ iters = 0
    /\ reads = {}
    /\ trace = <<>>
    /\ memo = NoCall

\* One call that is not left standing: the Go runtime runs the next statement
\* of a goroutine that can run.
FairSpec == InitFair /\ [][Next]_vars /\ WF_vars(Next)

InitCalls ==
    /\ s \in CallInputs
    /\ p = NoData
    /\ pc = "entry"
    /\ iters = 0
    /\ reads = {}
    /\ trace = <<>>
    /\ memo = NoCall

NextCalls == Next \/ CallAgain

\* Calls of Metaphone one after another.
SpecCalls == InitCalls /\ [][NextCalls]_vars

---------------------------------------------------------------------------
(* Properties *)

Primary == p.metaphone1

Secondary == p.metaphone2

Scanning == pc = "loop"

Returned == pc = "done"

HasSilentPrefix(w) ==
    /\ Len(w) >= 2
    /\ SubSeq(w, 1, 2) \in {Str("gn"), Str("kn"), Str("pn"), Str("wr"), Str("ps")}

IsUpperOnly(w) == \A i \in 1..Len(w) : w[i] \in 65..90

IsPrefix(u, w) == Len(u) <= Len(w) /\ SubSeq(w, 1, Len(u)) = u

Contains(w, byte) == \E i \in 1..Len(w) : w[i] = byte

\* C1: no step of a call reads outside the text: the call never panics, every
\* window [lo, hi) a step read (a window of matchesAny that passed the low-side
\* guard, the b handler's p.t[p.cur+1], the loop's p.t[p.cur]) has
\* 0 <= lo and hi <= len(p.t), and the text is the input followed by five spaces.
C1_NoOutOfRangeRead ==
    /\ pc # "panic"
    /\ \A w \in reads : 0 <= w[1] /\ w[1] <= w[2] /\ w[2] <= Len(p.t)
    /\ pc \in {"prefix", "initx", "loop", "done"} =>
          /\ Len(p.t) = Len(s) + 5
          /\ SubSeq(p.t, 1, Len(s)) = s
          /\ \A i \in Len(s) + 1 .. Len(s) + 5 : p.t[i] = 32

\* A handler read a window of more than one byte that ends exactly at the end
\* of the padded text.
C1_Witness ==
    /\ Scanning
    /\ \E w \in reads : w[2] = Len(p.t) /\ w[2] - w[1] > 1

\* C2: the call always returns, after at most len(s) + 5 loop iterations.
C2_Terminates ==
    /\ (pc # "done") ~> (pc = "done")
    /\ [](iters <= Len(s) + 5)

\* A call on an input of two bytes or more returned after exactly len(s) + 5
\* iterations.
C2_Witness == Returned /\ Len(s) > 1 /\ iters = Len(s) + 5

\* C3: no step decreases the cursor, and scanning starts with the cursor at 2
\* when the input begins with gn, kn, pn, wr or ps and at 0 otherwise.
C3_CursorMonotone ==
    /\ [][p.cur' >= p.cur]_vars
    /\ [](pc \in {"entry", "pad", "prefix"} => p.cur = 0)
    /\ []((pc = "initx" \/ (Scanning /\ iters = 0)) =>
            p.cur = IF HasSilentPrefix(s) THEN 2 ELSE 0)

\* After the initial skip of 2 a handler skipped again.
C3_Witness == HasSilentPrefix(s) /\ Scanning /\ iters = 1 /\ p.cur = 4

\* C4: every step that changes one code changes the other, and the two codes
\* have the same length in every state.
C4_EqualLength ==
    /\ [](Len(Primary) = Len(Secondary))
    /\ [][(Primary' # Primary) <=> (Secondary' # Secondary)]_vars

\* A call returned two codes that differ.
C4_Witness == Returned /\ Primary # Secondary /\ Len(Primary) = 2

\* C5: a call on the input of a recorded earlier call passes through the same
\* scan states and returns the same pair, whatever was called in between.
C5_Deterministic ==
    (memo # NoCall /\ memo.s = s /\ pc # "entry") =>
        /\ IsPrefix(trace, memo.trace)
        /\ Returned => trace = memo.trace /\ <<Primary, Secondary>> = memo.ret

\* A call returned a non-empty pair on the input of the recorded call.
C5_Witness ==
    /\ memo # NoCall /\ memo.s = s /\ Returned
    /\ Primary # <<>>

\* C6: on an input that begins with gn, kn, pn, wr or ps the cursor is at least
\* 2 whenever the loop dispatches, and no code ever holds an "a".
C6_PrefixConsumed ==
    HasSilentPrefix(s) =>
        /\ pc \in {"initx", "loop", "done"} => p.cur >= 2
        /\ ~Contains(Primary, Byte("a")) /\ ~Contains(Secondary, Byte("a"))

\* A vowel right after a silent prefix was dispatched, at cursor 2.
C6_Witness ==
    /\ HasSilentPrefix(s) /\ Len(s) >= 3 /\ s[3] \in VowelBytes
    /\ Scanning /\ iters = 1

\* C7: Metaphone("ç") returns ("s", "s").
C7_CedillaScenario ==
    (s = Utf8(RuneCedilla) /\ Returned) => (Primary = Str("s") /\ Secondary = Str("s"))

\* C8: on an input of uppercase letters only, nothing is skipped and nothing
\* is emitted: the cursor is the number of iterations and both codes are empty.
C8_UppercaseEmpty ==
    IsUpperOnly(s) =>
        /\ Primary = <<>> /\ Secondary = <<>>
        /\ pc \in {"initx", "loop", "done"} => p.cur = iters

\* A call on an uppercase word that names a rule in lower case returned.
C8_Witness == s = ToUpper(Str("chia")) /\ Returned

\* C9: "chia" takes rule 3 and returns ("k", "k"); "caesar" takes rule 2 and
\* returns ("s", "s"); the c of "cat" takes no rule and "cat" returns ("", "").
C9_CScenarios ==
    /\ s = Str("chia") =>
          /\ (Scanning /\ p.cur = 0) => cDecision(p).rule = "3"
          /\ Returned => (Primary = Str("k") /\ Secondary = Str("k"))
    /\ s = Str("caesar") =>
          /\ (Scanning /\ p.cur = 0) => cDecision(p).rule = "2"
          /\ Returned => (Primary = Str("s") /\ Secondary = Str("s"))
    /\ s = Str("cat") =>
          /\ (Scanning /\ p.cur = 0) => cDecision(p).rule = "7"
          /\ Returned => (Primary = <<>> /\ Secondary = <<>>)

\* The call on "caesar" returned.
C9_Witness == s = Str("caesar") /\ Returned /\ Primary = Str("s")

\* C10: on an input whose first byte is 'x', scanning starts with the cursor at
\* 0 and both codes "s"; the dispatch of the x leaves both codes "s"; and
\* "xray" returns ("s", "s").
C10_InitialX ==
    (Len(s) > 0 /\ s[1] = Byte("x")) =>
        /\ (Scanning /\ iters = 0) =>
              (p.cur = 0 /\ Primary = Str("s") /\ Secondary = Str("s"))
        /\ (Scanning /\ iters = 1) =>
              (p.cur = 1 /\ Primary = Str("s") /\ Secondary = Str("s"))
        /\ (s = Str("xray") /\ Returned) =>
              (Primary = Str("s") /\ Secondary = Str("s"))

\* The call on "xray" returned.
C10_Witness == s = Str("xray") /\ Returned /\ Primary = Str("s")

\* C11: on an input whose first byte is not 'x', scanning starts with both
\* codes empty.
C11_NothingBeforeScan ==
    (Len(s) = 0 \/ s[1] # Byte("x")) =>
        ((Scanning /\ iters = 0) => (Primary = <<>> /\ Secondary = <<>>))

\* The decision table of the c handler, as the specification writes it.
\* win(off, n) = w: the n bytes of the text from cursor + off are w; false when
\* the window starts before the text.
WinIs(q, off, n, w) ==
    /\ q.cur + off >= 0
    /\ q.cur + off + n <= Len(q.t)
    /\ SubSeq(q.t, q.cur + off + 1, q.cur + off + n) = w

\* win(off, .) is one of ws, each compared over its own length.
WinIn(q, off, ws) == \E w \in ws : WinIs(q, off, Len(w), w)

TableVowels == {Str("a"), Str("e"), Str("i"), Str("o"), Str("u"), Str("y")}

\* The first row whose condition holds; nChore is the length of the window
\* that row 4b compares with "chore".
TableRow(q, nChore) ==
    IF /\ q.cur > 1
       /\ ~WinIn(q, -2, TableVowels)
       /\ WinIs(q, -1, 3, Str("ach"))
       /\ ~WinIs(q, 2, 1, Str("i"))
       /\ (~WinIs(q, 2, 1, Str("e")) \/ WinIs(q, -2, 6, Str("acher")))
    THEN "1"
    ELSE IF q.cur = 0 /\ WinIs(q, 0, 6, Str("caesar")) THEN "2"
    ELSE IF WinIs(q, 0, 4, Str("chia")) THEN "3"
    ELSE IF WinIs(q, 0, 2, Str("ch")) THEN
        IF q.cur > 0 /\ WinIs(q, 0, 4, Str("chae")) THEN "4a"
        ELSE IF /\ q.cur = 0
                /\ ~WinIs(q, 0, nChore, Str("chore"))
                /\ WinIn(q, 1, {Str("harac"), Str("haris"), Str("hor"),
                                Str("hym"), Str("hia"), Str("hem")})
        THEN "4b"
        ELSE IF \/ WinIn(q, -q.cur, {Str("van "), Str("von "), Str("sch")})
                \/ WinIn(q, -2, {Str("orches"), Str("archit"), Str("orchid")})
                \/ WinIn(q, 2, {Str("t"), Str("s")})
                \/ /\ (WinIn(q, -1, {Str("a"), Str("e"), Str("o"), Str("u")}) \/ q.cur = 0)
                   /\ WinIn(q, 2, {Str("l"), Str("r"), Str("n"), Str("m"), Str("b"),
                                   Str("h"), Str("f"), Str("v"), Str("w"), Str(" ")})
        THEN "4c"
        ELSE IF q.cur > 0 /\ WinIs(q, -q.cur, 2, Str("mc")) THEN "4d"
        ELSE IF q.cur > 0 THEN "4e"
        ELSE "4f"
    ELSE IF WinIs(q, 0, 2, Str("cz")) /\ ~WinIs(q, -2, 4, Str("wicz")) THEN "5"
    ELSE IF WinIs(q, 1, 3, Str("cia")) THEN "6"
    ELSE "7"

\* A row's emission (P, S) and extra skip.
TableEffect(row) ==
    CASE row \in {"1", "3", "4a", "4b", "4c", "4d"} ->
            [P |-> Str("k"), S |-> Str("k"), skip |-> 1]
      [] row = "2"  -> [P |-> Str("s"), S |-> Str("s"), skip |-> 1]
      [] row = "4e" -> [P |-> Str("x"), S |-> Str("k"), skip |-> 1]
      [] row = "4f" -> [P |-> Str("x"), S |-> Str("x"), skip |-> 1]
      [] row = "5"  -> [P |-> Str("s"), S |-> Str("x"), skip |-> 1]
      [] row = "6"  -> [P |-> Str("x"), S |-> Str("x"), skip |-> 2]
      [] OTHER      -> [P |-> <<>>, S |-> <<>>, skip |-> 0]

\* The loop is about to dispatch the byte at the cursor to the c handler.
AtC == Scanning /\ LoopCond(p) /\ NextByte(p) = Byte("c")

\* The iteration that dispatches to c does what row says, and the branch the
\* code takes is that row.
FollowsRow(row) ==
    /\ cDecision(p).rule = row
    /\ Primary' = Primary \o TableEffect(row).P
    /\ Secondary' = Secondary \o TableEffect(row).S
    /\ p.cur' = p.cur + TableEffect(row).skip + 1

\* C12 as claimed: every dispatch to c follows the first row of the table as
\* written, whose row 4b compares a six-byte window with "chore".
C12_TableAsWritten == [][AtC => FollowsRow(TableRow(p, 6))]_vars

\* C12 as amended: every dispatch to c follows the first row of the table with
\* row 4b's exception read over five bytes, win(0,5) = "chore".
C12_TableAmended == [][AtC => FollowsRow(TableRow(p, 5))]_vars

\* The c of "chore" was dispatched and took the last row of "ch", emitting x.
C12_Witness ==
    s = Str("chore") /\ Scanning /\ iters = 1 /\ Primary = Str("x") /\ p.cur = 2

\* The loop is about to dispatch the byte at the cursor to the b handler.
AtB == Scanning /\ LoopCond(p) /\ NextByte(p) = Byte("b")

\* The first position of the maximal run of b that holds position i of w.
RunStart(w, i) ==
    CHOOSE j \in 1..i :
        /\ \A k \in j..i : w[k] = Byte("b")
        /\ (j = 1 \/ w[j - 1] # Byte("b"))

\* The sum, over the maximal runs of b in w, of ceil(n / 2) for a run of n:
\* the positions of a run at an even distance from its start.
HalfRuns(w) ==
    Cardinality({i \in 1..Len(w) : w[i] = Byte("b") /\ (i - RunStart(w, i)) % 2 = 0})

Count(w, byte) == Cardinality({i \in 1..Len(w) : w[i] = byte})

\* C13: a dispatch to b appends one "p" to both codes and consumes the next
\* byte as well exactly when it is 'b'; a call returns ceil(n / 2) "p" in each
\* code for every maximal run of n b's of its input; "bb" returns ("p", "p").
C13_DoubledB ==
    /\ [][AtB => /\ Primary' = Primary \o Str("p")
                 /\ Secondary' = Secondary \o Str("p")
                 /\ p.cur' = p.cur + (IF p.t[p.cur + 2] = Byte("b") THEN 2 ELSE 1)]_vars
    /\ [](Returned => /\ Count(Primary, Byte("p")) = HalfRuns(s)
                      /\ Count(Secondary, Byte("p")) = HalfRuns(s))
    /\ []((Returned /\ s = Str("bb")) => (Primary = Str("p") /\ Secondary = Str("p")))

\* A run of three b's returned two "p".
C13_Witness ==
    /\ s = <<Byte("b"), Byte("b"), Byte("b")>> /\ Returned
    /\ Primary = <<Byte("p"), Byte("p")>>

LowerVowels == {Byte("a"), Byte("e"), Byte("i"), Byte("o"), Byte("u"), Byte("y")}

StartsWithVowel(w) == Len(w) > 0 /\ w[1] \in LowerVowels

\* code holds "a" exactly when w starts with a vowel, and then once, in front.
OnlyLeadingA(code, w) ==
    /\ Contains(code, Byte("a")) <=> StartsWithVowel(w)
    /\ StartsWithVowel(w) => (code[1] = Byte("a") /\ Count(code, Byte("a")) = 1)

\* C14: a returned code holds "a" exactly when the input starts with one of
\* a, e, i, o, u, y, then as its first byte and nowhere else; before the return
\* no code holds "a" unless the input starts so; and the dispatch of a vowel at
\* a cursor > 0 changes neither code.
C14_VowelOnlyAtStart ==
    /\ [](Returned => (OnlyLeadingA(Primary, s) /\ OnlyLeadingA(Secondary, s)))
    /\ []((Contains(Primary, Byte("a")) \/ Contains(Secondary, Byte("a")))
             => StartsWithVowel(s))
    /\ [][(Scanning /\ LoopCond(p) /\ NextByte(p) \in LowerVowels /\ p.cur > 0)
             => (Primary' = Primary /\ Secondary' = Secondary)]_vars

\* An input with a vowel first and a vowel last returned one "a".
C14_Witness ==
    /\ Len(s) = 3 /\ s[1] = Byte("e") /\ s[3] = Byte("a") /\ Returned
    /\ Count(Primary, Byte("a")) = 1

\* A step that is one completed iteration of the scan loop.
IterationStep == pc = "loop" /\ pc' = "loop" /\ iters' = iters + 1

\* C15: across one iteration of the scan loop each code grows by zero or one
\* byte, as a suffix of what it was, and the cursor advances by 1, 2 or 3.
C15_OneEmissionOneSkip ==
    [][IterationStep =>
         /\ Len(Primary') - Len(Primary) \in {0, 1}
         /\ Len(Secondary') - Len(Secondary) \in {0, 1}
         /\ IsPrefix(Primary, Primary') /\ IsPrefix(Secondary, Secondary')
         /\ p.cur' - p.cur \in {1, 2, 3}]_vars

\* The cia rule emitted one byte and moved the cursor by three.
C15_Witness ==
    /\ s = Str("ccia") /\ Scanning /\ iters = 2
    /\ p.cur = 4 /\ Primary = Str("x")

\* C16: every step of a call leaves each code a prefix of its new value.
C16_AppendOnly ==
    [][IsPrefix(Primary, Primary') /\ IsPrefix(Secondary, Secondary')]_vars

\* A call that emitted twice, the second time with differing fragments.
C16_Witness ==
    /\ Returned /\ Primary = Str("p") \o Str("x") /\ Secondary = Str("p") \o Str("k")

\* C17: the cursor never passes the end of the text, and the call returns with
\* the cursor at the end of the text, five bytes after the end of the input.
C17_CursorBounded ==
    /\ p.cur <= Len(p.t)
    /\ Returned => (p.cur = Len(p.t) /\ Len(p.t) = Len(s) + 5)

\* A call whose last handler skipped returned at the end of the text.
C17_Witness ==
    /\ s = Str("bb") /\ Returned /\ p.cur = 7 /\ iters = 6

AfterPad == pc \in {"prefix", "initx", "loop", "done"}

\* A step in which only the matcher or the vowel predicate ran: a pre-scan
\* test or a rule-1 to rule-6 test of the c handler that did not hold.
MatcherOnlyStep ==
    \/ pc = "prefix" /\ ~HasSilentPrefix(s)
    \/ pc = "initx" /\ matchesAny(p, 0, <<Str("x")>>).v = "F"
    \/ AtC /\ cDecision(p).rule = "7"

\* C18: once the text is padded no step changes it, the flag isSlavoGermanic
\* is false in every state, and a step in which only the matcher or the vowel
\* predicate ran leaves the text and both codes as they were and the cursor as
\* it was but for the loop's own increment.
C18_OnlyCursorAndCodes ==
    /\ [](p.isSlavoGermanic = FALSE)
    /\ [](AfterPad => p.t = s \o Pad)
    /\ [][AfterPad => p.t' = p.t]_vars
    /\ [][MatcherOnlyStep =>
            /\ p.t' = p.t /\ Primary' = Primary /\ Secondary' = Secondary
            /\ p.cur' = p.cur + (IF pc = "loop" THEN 1 ELSE 0)]_vars

\* The c of "wicz", which no rule matches, was scanned and the w set no flag.
C18_Witness ==
    /\ s = Str("wicz") /\ Scanning /\ iters = 3 /\ p.cur = 3
    /\ Primary = <<>> /\ p.isSlavoGermanic = FALSE

\* The byte two positions after the cursor, p.t[p.cur+2].
TwoAhead == p.t[p.cur + 3]

\* C19: when the c handler is entered, "acher" at offset -2 and "ach" at
\* offset -1 never both match; whenever rule 1 is taken the byte two positions
\* after the cursor is neither e nor i; and the c of "bacher" is not handled by
\* rule 1.
C19_Rule1NeverBeforeEI ==
    AtC =>
       /\ ~(/\ matchesAny(p, -2, <<Str("acher")>>).v = "T"
            /\ matchesAny(p, -1, <<Str("ach")>>).v = "T")
       /\ cDecision(p).rule = "1" => TwoAhead \notin {Byte("e"), Byte("i")}
       /\ s = Str("bacher") => cDecision(p).rule # "1"

\* Rule 1 handled the c of "bach".
C19_Witness ==
    /\ s = Str("bach") /\ Scanning /\ iters = 3 /\ p.cur = 4
    /\ Primary = Str("p") \o Str("k") /\ Secondary = Primary

\* w holds the two bytes of pair at the Go index i.
PairAt(w, pair, i) == i + 2 <= Len(w) /\ w[i + 1] = pair[1] /\ w[i + 2] = pair[2]

ChAfterStart(w) == \E i \in 1..Len(w) : PairAt(w, Str("ch"), i)

CzAnywhere(w) == \E i \in 0..Len(w) : PairAt(w, Str("cz"), i)

\* C20: in every state of a call, and so on its return, the codes differ only
\* if the input holds "ch" at an index > 0 or holds "cz"; for an input holding
\* neither the codes are equal.
C20_DifferOnlyByChCz ==
    /\ Primary # Secondary => (ChAfterStart(s) \/ CzAnywhere(s))
    /\ (Returned /\ ~ChAfterStart(s) /\ ~CzAnywhere(s)) => Primary = Secondary

\* "czia" returned differing codes, and holds no "ch".
C20_Witness ==
    /\ s = Str("czia") /\ Returned /\ ~ChAfterStart(s)
    /\ Primary = Str("s") /\ Secondary = Str("x")

===========================================================================
